---- MODULE Spec2Model ----
(***************************************************************************)
(* Model of silx.gui.plot.Colormap (src/silx/gui/plot/Colormap.py): the    *)
(* Colormap object, its setters and sigChanged notification, the legacy    *)
(* dictionary conversion and getColorMapRange.                             *)
(*                                                                         *)
(* Encoding of Python values:                                              *)
(*   None is <<>> and a non-None value x is <<x>> wherever a value may be  *)
(*   None (names, bounds, data, return values);                            *)
(*   a str whose identity matters (the normalization) is a record          *)
(*   [s |-> contents, id |-> object]: == compares s, "is" compares both;   *)
(*   a colors argument is [type |-> Python type name, rows |-> entries];   *)
(*   a dict is a function whose DOMAIN is the set of keys present.         *)
(***************************************************************************)
EXTENDS Integers, Sequences, FiniteSets

VARIABLES self, emitted, observed, nset, call

vars == <<self, emitted, observed, nset, call>>

----------------------------------------------------------------------------
(* Bounds of the model *)

\* numeric bounds and data samples range over -MaxVal..MaxVal
MaxVal == 1
\* a data array holds 1..MaxLen samples
MaxLen == 2
\* at most MaxEmit successful mutating calls are followed per object
MaxEmit == 2
\* the bounds given to the constructor and the setters range over 0..MaxBound
MaxBound == 1

----------------------------------------------------------------------------
(* Python values *)

None == <<>>
Some(x) == <<x>>

Values == (0 - MaxVal)..MaxVal
OptValues == {None} \cup {Some(v) : v \in Values}
\* the bounds on either side of the constructor's 1.0
OptBounds == {None} \cup {Some(v) : v \in 0..MaxBound}

\* the str objects used as normalization; id 0 is the module-level constant
LINEAR == [s |-> "linear", id |-> 0]
LOGARITHM == [s |-> "log", id |-> 0]
NORMALIZATIONS == {LINEAR, LOGARITHM}
\* a str equal to 'log' that is another object, and an unsupported str
LogOther == [s |-> "log", id |-> 1]
Unsupported == [s |-> "foo", id |-> 1]
NormArgs == {LINEAR, LOGARITHM, LogOther, Unsupported}

\* a == b on str
StrEq(a, b) == a.s = b.s
\* x in NORMALIZATIONS (tuple membership compares with ==)
InNormalizations(x) == \E n \in NORMALIZATIONS : StrEq(x, n)

DEFAULT_MIN_LIN == 0
DEFAULT_MAX_LIN == 1
DEFAULT_MIN_LOG == 1
DEFAULT_MAX_LOG == 10

\* colors arguments
NoColors == [type |-> "NoneType", rows |-> <<>>]
EmptyList == [type |-> "list", rows |-> <<>>]
LutRows == << <<0, 0, 0>>, <<255, 255, 255>> >>
LutArray == [type |-> "ndarray", rows |-> LutRows]
BadColors == [type |-> "str", rows |-> <<>>]
ColorArgs == {NoColors, EmptyList, LutArray, BadColors}
CtorColors == {NoColors, LutArray}

IsNoneColors(c) == c.type = "NoneType"

\* numpy.array(colors) of a list or tuple
NumpyArray(c) == [type |-> "ndarray", rows |-> c.rows]

\* numpy.array_equal: same shape and same entries (None is a 0-d array)
ArrayEqual(a, b) == IsNoneColors(a) = IsNoneColors(b) /\ a.rows = b.rows

\* str(name)
PyStr(name) == IF name = None THEN "None" ELSE name[1]

PyTrue == "True"
PyFalse == "False"
PyBool(b) == IF b THEN PyTrue ELSE PyFalse

----------------------------------------------------------------------------
(* Outcome of a call: the exception raised ("none" if it returned), the    *)
(* object afterwards, how often sigChanged was emitted, the object as a    *)
(* connected slot reads it during the emission, and the return value.      *)

Returned(obj, ret) ==
    [err |-> "none", obj |-> obj, emits |-> 0, seen |-> obj, ret |-> ret]

Raised(err, obj) ==
    [err |-> err, obj |-> obj, emits |-> 0, seen |-> obj, ret |-> None]

\* the call ends with self.sigChanged.emit()
Emitting(obj) ==
    [err |-> "none", obj |-> obj, emits |-> 1, seen |-> obj, ret |-> None]

----------------------------------------------------------------------------
(* silx.math.combo.min_max(data, min_positive=True): one pass over the     *)
(* samples; min_positive is None unless a strictly positive sample exists. *)

RECURSIVE MinMaxPass(_, _, _)
MinMaxPass(data, i, acc) ==
    IF i > Len(data) THEN acc
    ELSE LET x == data[i]
             mp == IF x > 0 /\ (acc.min_positive = None \/ x < acc.min_positive[1])
                   THEN Some(x) ELSE acc.min_positive
         IN MinMaxPass(data, i + 1,
                [minimum |-> IF x < acc.minimum THEN x ELSE acc.minimum,
                 maximum |-> IF x > acc.maximum THEN x ELSE acc.maximum,
                 min_positive |-> mp])

min_max(data) ==
    MinMaxPass(data, 2,
        [minimum |-> data[1], maximum |-> data[1],
         min_positive |-> IF data[1] > 0 THEN Some(data[1]) ELSE None])

----------------------------------------------------------------------------
(* class Colormap *)

\* Colormap._setColors
_setColors(cm, colors) ==
    IF ~(colors.type \in {"ndarray", "list", "tuple"} \/ IsNoneColors(colors))
    THEN Raised("ValueError", cm)
    ELSE IF colors.type \in {"list", "tuple"}
         THEN Returned([cm EXCEPT !._colors = NumpyArray(colors)], None)
         ELSE Returned([cm EXCEPT !._colors = colors], None)

\* the attributes of an instance before __init__ has assigned any
Blank ==
    [_name |-> None, _colors |-> NoColors, _normalization |-> LINEAR,
     _vmin |-> None, _vmax |-> None, _autoscale |-> None]

\* __init__ discarding only the bound that is below 1.0
__init__OnlyOffending(name, colors, normalization, vmin, vmax) ==
    IF ~InNormalizations(normalization) THEN Raised("AssertionError", Blank)
    ELSE
    LET log == normalization = LOGARITHM
        vmin1 == IF log /\ vmin # None /\ vmin[1] < 1 THEN None ELSE vmin
        vmax1 == IF log /\ vmax # None /\ vmax[1] < 1 THEN None ELSE vmax
        named == [Blank EXCEPT !._name = IF name # None THEN Some(PyStr(name)) ELSE None]
        col == _setColors(named, colors)
    IN IF col.err # "none" THEN Raised(col.err, Blank)
       ELSE Returned([col.obj EXCEPT !._normalization = normalization,
                                     !._vmin = vmin1,
                                     !._vmax = vmax1], None)

\* Colormap.__init__; _autoscale is None while the attribute does not exist
__init__(name, colors, normalization, vmin, vmax) ==
    IF ~InNormalizations(normalization) THEN Raised("AssertionError", Blank)
    ELSE
    LET reset == /\ normalization = LOGARITHM
                 /\ \/ (vmin # None /\ vmin[1] < 1)
                    \/ (vmax # None /\ vmax[1] < 1)
        vmin1 == IF reset THEN None ELSE vmin
        vmax1 == IF reset THEN None ELSE vmax
        named == [Blank EXCEPT !._name = IF name # None THEN Some(PyStr(name)) ELSE None]
        col == _setColors(named, colors)
    IN IF col.err # "none" THEN Raised(col.err, Blank)
       ELSE Returned([col.obj EXCEPT !._normalization = normalization,
                                     !._vmin = vmin1,
                                     !._vmax = vmax1], None)

\* Colormap.isAutoscale
isAutoscale(cm) == cm._vmin = None \/ cm._vmax = None

\* Colormap.getName
getName(cm) == cm._name

\* Colormap.setName
setName(cm, name) ==
    Emitting([cm EXCEPT !._name = Some(PyStr(name)), !._colors = NoColors])

\* Colormap.getColorMapLUT (copy.copy keeps the contents)
getColorMapLUT(cm) == cm._colors

\* Colormap.setColorMapLUT
setColorMapLUT(cm, colors, keepName) ==
    LET col == _setColors(cm, colors)
    IN IF col.err # "none" THEN col
       ELSE IF IsNoneColors(colors) THEN Raised("TypeError", col.obj)
       ELSE LET c1 == IF Len(colors.rows) = 0
                      THEN [col.obj EXCEPT !._colors = NoColors] ELSE col.obj
                c2 == IF keepName = FALSE
                      THEN [c1 EXCEPT !._name = Some("")] ELSE c1
            IN Emitting(c2)

\* Colormap.getNormalization
getNormalization(cm) == cm._normalization

\* Colormap.setNormalization
setNormalization(cm, norm) == Emitting([cm EXCEPT !._normalization = norm])

\* Colormap.getVMin
getVMin(cm) == cm._vmin

\* Colormap.setVMin
setVMin(cm, vmin) == Emitting([cm EXCEPT !._vmin = vmin])

\* Colormap.getVMax
getVMax(cm) == cm._vmax

\* Colormap.setVMax
setVMax(cm, vmax) == Emitting([cm EXCEPT !._vmax = vmax])

\* setVMinVMax emitting sigChanged before _vmax is assigned
setVMinVMaxEmitEarly(cm, vmin, vmax) ==
    [err |-> "none", obj |-> [cm EXCEPT !._vmin = vmin, !._vmax = vmax],
     emits |-> 1, seen |-> [cm EXCEPT !._vmin = vmin], ret |-> None]

\* Colormap.setVMinVMax
setVMinVMax(cm, vmin, vmax) ==
    Emitting([cm EXCEPT !._vmin = vmin, !._vmax = vmax])

\* Colormap._getDefaultMin
_getDefaultMin(cm) ==
    IF StrEq(cm._normalization, LINEAR) THEN DEFAULT_MIN_LIN ELSE DEFAULT_MIN_LOG

\* _getDefaultMax with the two defaults exchanged
_getDefaultMaxSwapped(cm) ==
    IF StrEq(cm._normalization, LINEAR) THEN DEFAULT_MAX_LOG ELSE DEFAULT_MAX_LIN

\* Colormap._getDefaultMax
_getDefaultMax(cm) ==
    IF StrEq(cm._normalization, LINEAR) THEN DEFAULT_MAX_LIN ELSE DEFAULT_MAX_LOG

\* one element of the pair getColorMapRange returns
Scalar(opt) ==
    IF opt = None THEN [kind |-> "None", val |-> None]
    ELSE [kind |-> "scalar", val |-> opt]
Pair(a, b) == [kind |-> "tuple", val |-> <<a, b>>]

\* getColorMapRange correcting a vmin of 0 as well (vmin <= 0)
getColorMapRangeLeq(cm, data) ==
    LET result == min_max(data[1])
        vmin1 == IF cm._vmin = None
                 THEN IF data # None THEN Some(result.minimum)
                      ELSE Some(_getDefaultMin(cm))
                 ELSE cm._vmin
        vmax1 == IF cm._vmax = None
                 THEN IF data # None THEN Some(result.maximum)
                      ELSE Some(_getDefaultMax(cm))
                 ELSE cm._vmax
        log == data # None /\ StrEq(getNormalization(cm), LOGARITHM)
        vmin2 == IF log /\ vmin1[1] <= 0
                 THEN Scalar(result.min_positive) ELSE Scalar(vmin1)
        vmax2 == IF log /\ vmax1[1] < 0
                 THEN Pair(result.min_positive, Some(result.maximum))
                 ELSE Scalar(vmax1)
    IN Returned(cm, [vmin |-> vmin2, vmax |-> vmax2])

\* Colormap.getColorMapRange; data is None or Some(samples)
getColorMapRange(cm, data) ==
    LET result == min_max(data[1])
        vmin1 == IF cm._vmin = None
                 THEN IF data # None THEN Some(result.minimum)
                      ELSE Some(_getDefaultMin(cm))
                 ELSE cm._vmin
        vmax1 == IF cm._vmax = None
                 THEN IF data # None THEN Some(result.maximum)
                      ELSE Some(_getDefaultMax(cm))
                 ELSE cm._vmax
        log == data # None /\ StrEq(getNormalization(cm), LOGARITHM)
        vmin2 == IF log /\ vmin1[1] < 0
                 THEN Scalar(result.min_positive) ELSE Scalar(vmin1)
        vmax2 == IF log /\ vmax1[1] < 0
                 THEN Pair(result.min_positive, Some(result.maximum))
                 ELSE Scalar(vmax1)
    IN Returned(cm, [vmin |-> vmin2, vmax |-> vmax2])

\* Colormap.__getitem__
__getitem__(cm, item) ==
    IF item = "autoscale" THEN Returned(cm, isAutoscale(cm))
    ELSE IF item = "name" THEN Returned(cm, getName(cm))
    ELSE IF item = "normalization" THEN Returned(cm, getNormalization(cm))
    ELSE IF item = "vmin" THEN Returned(cm, getVMin(cm))
    ELSE IF item = "vmax" THEN Returned(cm, getVMax(cm))
    ELSE IF item = "colors" THEN Returned(cm, getColorMapLUT(cm))
    ELSE Raised("KeyError", cm)

\* Colormap._toDict
_toDict(cm) ==
    [name |-> cm._name,
     colors |-> cm._colors,
     vmin |-> cm._vmin,
     vmax |-> cm._vmax,
     autoscale |-> PyBool(isAutoscale(cm)),
     normalization |-> cm._normalization]

\* dic[key] if key in dic else None
DicGet(dic, key) == IF key \in DOMAIN dic THEN dic[key] ELSE None

\* _setFromDict refusing autoscale False as soon as one bound is None
_setFromDictEitherNone(cm, dic) ==
    LET name == DicGet(dic, "name")
        colors == IF "colors" \in DOMAIN dic THEN dic["colors"] ELSE NoColors
        vmin == DicGet(dic, "vmin")
        vmax == DicGet(dic, "vmax")
        normalization == IF "normalization" \in DOMAIN dic
                         THEN dic["normalization"] ELSE LINEAR
    IN IF name = None /\ IsNoneColors(colors) THEN Raised("ValueError", cm)
       ELSE IF ~InNormalizations(normalization) THEN Raised("ValueError", cm)
       ELSE IF /\ "autoscale" \in DOMAIN dic
               /\ dic["autoscale"] = PyTrue
               /\ (vmin # None \/ vmax # None)
            THEN Raised("ValueError", cm)
       ELSE IF /\ "autoscale" \in DOMAIN dic
               /\ dic["autoscale"] # PyTrue
               /\ dic["autoscale"] = PyFalse
               /\ (vmin = None \/ vmax = None)
            THEN Raised("ValueError", cm)
       ELSE IF /\ "autoscale" \in DOMAIN dic
               /\ dic["autoscale"] # PyTrue
               /\ dic["autoscale"] # PyFalse
            THEN Raised("ValueError", cm)
       ELSE Emitting([_name |-> name,
                      _colors |-> colors,
                      _vmin |-> vmin,
                      _vmax |-> vmax,
                      _autoscale |-> Some(vmin = None /\ vmax = None),
                      _normalization |-> normalization])

\* Colormap._setFromDict
_setFromDict(cm, dic) ==
    LET name == DicGet(dic, "name")
        colors == IF "colors" \in DOMAIN dic THEN dic["colors"] ELSE NoColors
        vmin == DicGet(dic, "vmin")
        vmax == DicGet(dic, "vmax")
        normalization == IF "normalization" \in DOMAIN dic
                         THEN dic["normalization"] ELSE LINEAR
    IN IF name = None /\ IsNoneColors(colors) THEN Raised("ValueError", cm)
       ELSE IF ~InNormalizations(normalization) THEN Raised("ValueError", cm)
       ELSE IF /\ "autoscale" \in DOMAIN dic
               /\ dic["autoscale"] = PyTrue
               /\ (vmin # None \/ vmax # None)
            THEN Raised("ValueError", cm)
       ELSE IF /\ "autoscale" \in DOMAIN dic
               /\ dic["autoscale"] # PyTrue
               /\ dic["autoscale"] = PyFalse
               /\ (vmin = None /\ vmax = None)
            THEN Raised("ValueError", cm)
       ELSE IF /\ "autoscale" \in DOMAIN dic
               /\ dic["autoscale"] # PyTrue
               /\ dic["autoscale"] # PyFalse
            THEN Raised("ValueError", cm)
       ELSE Emitting([_name |-> name,
                      _colors |-> colors,
                      _vmin |-> vmin,
                      _vmax |-> vmax,
                      _autoscale |-> Some(vmin = None /\ vmax = None),
                      _normalization |-> normalization])

\* Colormap._fromDict (static): Colormap(name="") and then _setFromDict
_fromDict(dic) ==
    _setFromDict(__init__(Some(""), NoColors, LINEAR, None, None).obj, dic)

\* Colormap.copy: the new instance, or the exception of its constructor
copy(cm) ==
    LET new == __init__(cm._name, cm._colors, cm._normalization, cm._vmin, cm._vmax)
    IN IF new.err # "none" THEN Raised(new.err, cm)
       ELSE Returned(cm, Some(new.obj))

\* Colormap.__eq__
__eq__(a, b) ==
    /\ getName(a) = getName(b)
    /\ StrEq(getNormalization(a), getNormalization(b))
    /\ getVMin(a) = getVMin(b)
    /\ getVMax(a) = getVMax(b)
    /\ ArrayEqual(getColorMapLUT(a), getColorMapLUT(b))

\* Colormap._fromDict(c._toDict()): the rebuilt instance, or the exception
RoundTripOf(cm) ==
    LET back == _fromDict(_toDict(cm))
    IN IF back.err # "none" THEN Raised(back.err, cm)
       ELSE Returned(cm, Some(back.obj))

----------------------------------------------------------------------------
(* Inputs *)

CtorNames == {None, Some("gray")}
SetNames == {Some("gray")}

\* the arrays passed as data: 1..MaxLen samples
RECURSIVE SeqsUpTo(_)
SeqsUpTo(n) ==
    IF n = 0 THEN {<<>>}
    ELSE LET shorter == SeqsUpTo(n - 1)
         IN shorter \cup {Append(q, v) : q \in {r \in shorter : Len(r) = n - 1}, v \in Values}
DataArgs == {None} \cup {Some(q) : q \in SeqsUpTo(MaxLen) \ {<<>>}}
\* the data passed where the returned range is not what is examined
SampleData == {None, Some(<<1>>)}

\* the keys passed to __getitem__: the key the colormap answers with
\* isAutoscale, another key it knows, and one it does not
ItemArgs == {"autoscale", "vmin", "unknown"}

\* a dict from what each key holds: <<>> leaves the key out, <<x>> maps it to x
MkDict(entries) ==
    [k \in {key \in DOMAIN entries : entries[key] # <<>>} |-> entries[k][1]]

Entry(S) == {<<>>} \cup {<<x>> : x \in S}

Dicts ==
    {MkDict([name |-> n, colors |-> c, vmin |-> lo, vmax |-> hi,
             normalization |-> no, autoscale |-> au]) :
        n \in Entry({None, Some("gray")}),
        c \in Entry({NoColors, LutArray}),
        lo \in Entry({None, Some(1)}),
        hi \in Entry({None, Some(1)}),
        no \in Entry({LINEAR, LOGARITHM, Unsupported}),
        au \in Entry({PyTrue, PyFalse, "yes"})}

\* the dicts passed to an existing colormap: a name, bounds, and optionally
\* a normalization and an autoscale flag
LegacyDicts ==
    {MkDict([name |-> <<Some("gray")>>, colors |-> <<>>, vmin |-> <<lo>>,
             vmax |-> <<None>>, normalization |-> no, autoscale |-> au]) :
        lo \in {None, Some(1)},
        no \in Entry({LOGARITHM, Unsupported}),
        au \in Entry({PyTrue, PyFalse})}

----------------------------------------------------------------------------
(* State: the Colormap under observation (self), the number of sigChanged  *)
(* emissions it has made (emitted), what a connected slot read at the last *)
(* one (observed), the number of mutating calls that returned (nset), and  *)
(* the last call with its arguments and outcome (call).                    *)

Construct(name, colors, normalization, vmin, vmax) ==
    LET r == __init__(name, colors, normalization, vmin, vmax)
    IN /\ self = r.obj
       /\ emitted = 0
       /\ observed = None
       /\ nset = 0
       /\ call = [op |-> "__init__",
                  args |-> [name |-> name, colors |-> colors,
                            normalization |-> normalization,
                            vmin |-> vmin, vmax |-> vmax],
                  err |-> r.err, ret |-> None]

Init ==
    \E name \in CtorNames, colors \in CtorColors, normalization \in NormArgs,
       vmin \in OptBounds, vmax \in OptBounds :
        Construct(name, colors, normalization, vmin, vmax)

\* Colormap()
InitDefault == Construct(Some("gray"), NoColors, LINEAR, None, None)

\* an instance exists unless its constructor raised
Constructed == ~(call.op = "__init__" /\ call.err # "none")

\* a call of a method that ends with sigChanged.emit() when it returns
Mutate(op, args, r) ==
    /\ Constructed
    /\ nset + (IF r.err = "none" THEN 1 ELSE 0) <= MaxEmit
    /\ emitted + r.emits <= MaxEmit
    /\ self' = r.obj
    /\ emitted' = emitted + r.emits
    /\ observed' = IF r.emits > 0 THEN Some(r.seen) ELSE observed
    /\ nset' = nset + (IF r.err = "none" THEN 1 ELSE 0)
    /\ call' = [op |-> op, args |-> args, err |-> r.err, ret |-> r.ret]

\* a call of a method that only reads
Read(op, args, r) ==
    /\ Constructed
    /\ emitted + r.emits <= MaxEmit
    /\ self' = r.obj
    /\ emitted' = emitted + r.emits
    /\ observed' = IF r.emits > 0 THEN Some(r.seen) ELSE observed
    /\ nset' = nset
    /\ call' = [op |-> op, args |-> args, err |-> r.err, ret |-> r.ret]

SetName(name) == Mutate("setName", name, setName(self, name))

SetColorMapLUT(colors, keepName) ==
    Mutate("setColorMapLUT", <<colors, keepName>>,
           setColorMapLUT(self, colors, keepName))

SetNormalization(norm) ==
    Mutate("setNormalization", norm, setNormalization(self, norm))

SetVMin(vmin) == Mutate("setVMin", vmin, setVMin(self, vmin))

SetVMax(vmax) == Mutate("setVMax", vmax, setVMax(self, vmax))

SetVMinVMax(vmin, vmax) ==
    Mutate("setVMinVMax", <<vmin, vmax>>, setVMinVMax(self, vmin, vmax))

SetFromDict(dic) == Mutate("_setFromDict", dic, _setFromDict(self, dic))

GetName == Read("getName", None, Returned(self, getName(self)))

GetVMin == Read("getVMin", None, Returned(self, getVMin(self)))

IsAutoscale == Read("isAutoscale", None, Returned(self, isAutoscale(self)))

GetColorMapRange(data) ==
    Read("getColorMapRange", data, getColorMapRange(self, data))

ToDict == Read("_toDict", None, Returned(self, _toDict(self)))

GetItem(item) == Read("__getitem__", item, __getitem__(self, item))

Copy == Read("copy", None, copy(self))

RoundTrip == Read("roundtrip", None, RoundTripOf(self))

\* Colormap._fromDict(dic): the instance it builds becomes the one observed
\* (a behaviour follows one call: the result does not depend on the state)
FromDict(dic) ==
    LET r == _fromDict(dic)
    IN /\ call.op = "__init__"
       /\ self' = r.obj
       /\ emitted' = r.emits
       /\ observed' = IF r.emits > 0 THEN Some(r.seen) ELSE None
       /\ nset' = 0
       /\ call' = [op |-> "_fromDict", args |-> dic, err |-> r.err, ret |-> r.ret]

Next ==
    \/ \E name \in SetNames : SetName(name)
    \/ \E colors \in ColorArgs, keepName \in BOOLEAN : SetColorMapLUT(colors, keepName)
    \/ \E norm \in NormArgs : SetNormalization(norm)
    \/ \E vmin \in OptBounds : SetVMin(vmin)
    \/ \E vmax \in OptBounds : SetVMax(vmax)
    \/ \E vmin \in OptBounds, vmax \in OptBounds : SetVMinVMax(vmin, vmax)
    \/ \E dic \in LegacyDicts : SetFromDict(dic)
    \/ GetName
    \/ GetVMin
    \/ IsAutoscale
    \/ \E data \in SampleData : GetColorMapRange(data)
    \/ ToDict
    \/ \E item \in ItemArgs : GetItem(item)
    \/ Copy
    \/ RoundTrip

Spec == Init /\ [][Next]_vars

\* getColorMapRange over every bound, normalization and data array
NextRange ==
    \/ \E norm \in NormArgs : SetNormalization(norm)
    \/ \E vmin \in OptValues, vmax \in OptValues : SetVMinVMax(vmin, vmax)
    \/ \E data \in DataArgs : GetColorMapRange(data)

SpecRange == InitDefault /\ [][NextRange]_vars

\* _fromDict over every dict
NextFromDict == \E dic \in Dicts : FromDict(dic)

SpecFromDict == InitDefault /\ [][NextFromDict]_vars

----------------------------------------------------------------------------
(* Properties of getColorMapRange, checked under SpecRange *)

\* what the properties read of the last call
RangeCall == Constructed /\ call.op = "getColorMapRange"
Samples == {call.args[1][i] : i \in 1..Len(call.args[1])}
Positive == {x \in Samples : x > 0}
Least(S) == CHOOSE m \in S : \A x \in S : m <= x
Greatest(S) == CHOOSE m \in S : \A x \in S : m >= x
IsLinear == self._normalization.s = "linear"
IsLog == self._normalization.s = "log"
\* the bounds before any logarithmic correction, with the defaults as numbers
ResolvedMin ==
    IF self._vmin # None THEN self._vmin[1]
    ELSE IF call.args # None THEN Least(Samples)
    ELSE IF IsLinear THEN 0 ELSE 1
ResolvedMax ==
    IF self._vmax # None THEN self._vmax[1]
    ELSE IF call.args # None THEN Greatest(Samples)
    ELSE IF IsLinear THEN 1 ELSE 10
IsScalar(elt, v) == elt.kind = "scalar" /\ elt.val = Some(v)

\* C1: with normalization LINEAR, or LINEAR/LOGARITHM and no data,
\* getColorMapRange returns each explicit bound unchanged and resolves a null
\* bound to the data minimum/maximum, or without data to 0 and 1 (LINEAR) or
\* 1 and 10 (LOGARITHM).
C1_RangeWithoutCorrection ==
    (RangeCall /\ (IsLinear \/ (IsLog /\ call.args = None))) =>
        /\ call.err = "none"
        /\ IsScalar(call.ret.vmin, ResolvedMin)
        /\ IsScalar(call.ret.vmax, ResolvedMax)

\* LOGARITHM, no data, both bounds null: (1, 10)
C1_Witness ==
    /\ RangeCall /\ IsLog /\ call.args = None
    /\ self._vmin = None /\ self._vmax = None
    /\ IsScalar(call.ret.vmin, 1) /\ IsScalar(call.ret.vmax, 10)

\* C2: with LOGARITHM and data holding a strictly positive sample, a negative
\* resolved vmax is returned as the single scalar min_positive, never as a
\* two-element tuple, so that the pair returned holds two scalars.
C2_VmaxIsScalar ==
    (RangeCall /\ IsLog /\ call.args # None /\ Positive # {} /\ ResolvedMax < 0) =>
        /\ call.ret.vmin.kind = "scalar"
        /\ IsScalar(call.ret.vmax, Least(Positive))

\* C3: with LOGARITHM and data without a strictly positive sample, a negative
\* resolved bound makes the call raise; no pair is returned.
C3_RaisesWithoutPositive ==
    (/\ RangeCall /\ IsLog /\ call.args # None /\ Positive = {}
     /\ (ResolvedMin < 0 \/ ResolvedMax < 0)) =>
        call.err # "none"

----------------------------------------------------------------------------
(* Properties of the Colormap object, checked under Spec *)

\* C5: the normalization of a Colormap is always 'linear' or 'log'; a setter
\* given another str raises instead of storing it.
C5_NormalizationValid ==
    Constructed => self._normalization.s \in {"linear", "log"}

\* C6: for a Colormap with a name and a supported normalization, whichever
\* of vmin and vmax are None, _fromDict(_toDict(c)) returns a Colormap equal
\* to c.
C6_RoundTrip ==
    (/\ Constructed /\ call.op = "roundtrip"
     /\ self._name # None /\ InNormalizations(self._normalization)) =>
        /\ call.err = "none"
        /\ __eq__(call.ret[1], self)

\* C7: a call that raises leaves every attribute of the Colormap as it was
\* and emits no sigChanged.
C7_NoPartialMutation ==
    [][call'.err # "none" => (self' = self /\ emitted' = emitted)]_vars

SetterOps ==
    {"setName", "setNormalization", "setVMin", "setVMax", "setVMinVMax",
     "setColorMapLUT"}

\* C9: each setter that returns has emitted sigChanged exactly once, after
\* the attributes were replaced (a slot reading the Colormap during the
\* emission sees the values the call leaves); n mutating calls that returned
\* have emitted n times, and the calls that only read emit nothing.
C9_OneNotificationPerSetter ==
    Constructed =>
        /\ emitted = nset
        /\ (call.op \in SetterOps /\ call.err = "none") => observed = Some(self)

\* two setters have returned, the second one setVMinVMax with distinct bounds
C9_Witness ==
    /\ call.op = "setVMinVMax" /\ call.err = "none"
    /\ nset = 2 /\ emitted = 2
    /\ self._vmin = Some(0) /\ self._vmax = Some(1)
    /\ observed = Some(self)

BelowOne(bound) == bound # None /\ bound[1] < 1

BothNone == self._vmin = None /\ self._vmax = None

\* C11: isAutoscale(), the 'autoscale' entry of _toDict() and
\* __getitem__('autoscale') are True exactly when vmin and vmax are both
\* None, and False as soon as one of them is an explicit value.
C11_AutoscaleIffBothNone ==
    Constructed =>
        /\ call.op = "isAutoscale" => call.ret = BothNone
        /\ call.op = "_toDict" => call.ret["autoscale"] = PyBool(BothNone)
        /\ (call.op = "__getitem__" /\ call.args = "autoscale") =>
               (call.err = "none" /\ call.ret = BothNone)

----------------------------------------------------------------------------
(* Properties of _fromDict, checked under SpecFromDict *)

Refused(dic) ==
    LET name == DicGet(dic, "name")
        colorsNone == "colors" \notin DOMAIN dic \/ IsNoneColors(dic["colors"])
        vmin == DicGet(dic, "vmin")
        vmax == DicGet(dic, "vmax")
        has(key) == key \in DOMAIN dic
    IN \/ name = None /\ colorsNone
       \/ has("normalization") /\ dic["normalization"].s \notin {"linear", "log"}
       \/ has("autoscale") /\ dic["autoscale"] = PyTrue /\ (vmin # None \/ vmax # None)
       \/ has("autoscale") /\ dic["autoscale"] = PyFalse /\ vmin = None /\ vmax = None
       \/ has("autoscale") /\ dic["autoscale"] \notin {PyTrue, PyFalse}

\* C8: _fromDict raises ValueError exactly when (a) name and colors are both
\* None or absent, (b) a normalization is given that is not 'linear' or 'log',
\* (c) autoscale is True and vmin or vmax is not None, (d) autoscale is False
\* and vmin and vmax are both None, or (e) autoscale is neither True nor
\* False; otherwise it stores the fields given, with LINEAR for an absent
\* normalization.
C8_FromDictValidation ==
    call.op = "_fromDict" =>
        LET dic == call.args
        IN /\ call.err = (IF Refused(dic) THEN "ValueError" ELSE "none")
           /\ ~Refused(dic) =>
                 /\ self._name = DicGet(dic, "name")
                 /\ self._colors = (IF "colors" \in DOMAIN dic
                                    THEN dic["colors"] ELSE NoColors)
                 /\ self._vmin = DicGet(dic, "vmin")
                 /\ self._vmax = DicGet(dic, "vmax")
                 /\ self._normalization.s = (IF "normalization" \in DOMAIN dic
                                             THEN dic["normalization"].s
                                             ELSE "linear")

\* {'autoscale': True, 'vmin': 1, 'name': 'gray'} is refused
C8_Witness ==
    /\ call.op = "_fromDict" /\ call.err = "ValueError"
    /\ DOMAIN call.args = {"autoscale", "vmin", "name"}
    /\ call.args["autoscale"] = PyTrue
    /\ call.args["vmin"] = Some(1)
    /\ call.args["name"] = Some("gray")

====
